---- MODULE Spec2Model ----
(***************************************************************************)
(* Model of reflow_comments.c: the wrap_text helper, the four rewriting    *)
(* rules (A: commented print, B: inline comment, C: comment run, D:        *)
(* triple-quoted block) and the scan loop of process_file.                 *)
(*                                                                         *)
(* A C string is a sequence of one-character strings (no NUL); the C index *)
(* text[k] is s[k+1] here.  A line of the file keeps its terminator, as    *)
(* fgets returns it.                                                       *)
(***************************************************************************)
EXTENDS Integers, Sequences, FiniteSets, TLC

VARIABLES
    lines,   \* process_file: char **lines, the lines read by fgets
    i,       \* process_file: the scan cursor of the rule loop (0-based)
    out,     \* what the loop has written to fout, one record per iteration
    pc,      \* process_file: "scan", "done", "failed", "crashed"; "idle"
    wtext,   \* wrap_text: the text argument of the current (recursive) call
    wwidth,  \* wrap_text: max_width
    wlines,  \* wrap_text: the first_part of every call made so far
    wpc,     \* wrap_text: "call", "returned"; "idle" when not running
    unread,  \* process_file: the lines of the file the fgets loop did not get
    target,  \* what filename names: the "original" file or the "scratch" file
    fs       \* the file system of the scratch file: "ok", or "full" (writes fail)

vars == <<lines, i, out, pc, wtext, wwidth, wlines, wpc, unread, target, fs>>

\* ------------------------------------------------------------ constants

MAX_LEN == 79

\* The program's "no indent seen yet" value of merge_comment_block.
INDENT_INIT == 1000

\* wrap_text looks for a break character up to max_width + 10 (exclusive).
FWD_WINDOW == 10

\* ------------------------------------------------------------ bounds

\* Longest file (in lines) the scan is run on.
MaxLines == 3

\* Longest text and largest width wrap_text is run on by itself.
MaxTextLen == 7
MaxWidth == 3

\* ------------------------------------------------------------ characters

NL == "\n"
CR == "\r"
TAB == "\t"
HASH == "#"
QUOTE == "\""

\* isspace() in the C locale (\v and \f do not occur in the inputs).
isspace(c) == c \in {" ", TAB, NL, CR}

\* wrap_text: const char *break_chars = " ,.:;"
break_chars == {" ", ",", ".", ":", ";"}

\* The marker of a triple-quoted block.
TRIPLE == <<QUOTE, QUOTE, QUOTE>>

\* A pointer result that is NULL (no output string is equal to it: every
\* element of a string is one character).
NULL == <<"NULL">>

Rep(c, n) == [k \in 1..n |-> c]

Spaces(n) == Rep(" ", n)

SetMin(S) == CHOOSE x \in S : \A y \in S : x <= y

\* ------------------------------------------------------------ helpers

\* Number of characters left when the trailing characters satisfying the
\* test are cut: the loop `while (len > 0 && test(s[len-1])) s[--len] = 0`.
RECURSIVE crlf_len(_, _)
crlf_len(s, n) ==
    IF n > 0 /\ s[n] \in {NL, CR} THEN crlf_len(s, n - 1) ELSE n

strip_crlf(s) == SubSeq(s, 1, crlf_len(s, Len(s)))

RECURSIVE rtrim_len(_, _)
rtrim_len(s, n) ==
    IF n > 0 /\ isspace(s[n]) THEN rtrim_len(s, n - 1) ELSE n

rtrim(s) == SubSeq(s, 1, rtrim_len(s, Len(s)))

\* Index (0-based) of the first character at or after k that is not
\* whitespace, Len(s) when there is none: `while (*p && isspace(*p)) p++`.
RECURSIVE skip_space(_, _)
skip_space(s, k) ==
    IF k < Len(s) /\ isspace(s[k + 1]) THEN skip_space(s, k + 1) ELSE k

ltrim(s) == SubSeq(s, skip_space(s, 0) + 1, Len(s))

\* Leading-whitespace count of a line.
indent_of(s) == skip_space(s, 0)

\* The character at C index k, "" for the terminating NUL.
CharAt(s, k) == IF k < Len(s) THEN s[k + 1] ELSE ""

\* strncmp(s + k, pat, Len(pat)) == 0
HasPrefixAt(s, k, pat) ==
    /\ k + Len(pat) <= Len(s)
    /\ \A j \in 1..Len(pat) : s[k + j] = pat[j]

\* strstr(s + k, pat): 0-based index in s of the first occurrence at or
\* after k, -1 for NULL.
strstr_from(s, pat, k) ==
    LET M == {p \in k..(Len(s) - Len(pat)) : HasPrefixAt(s, p, pat)}
    IN  IF M = {} THEN -1 ELSE SetMin(M)

strstr(s, pat) == strstr_from(s, pat, 0)

\* strchr(s, c): 0-based index of the first c, -1 for NULL.
strchr(s, c) == strstr(s, <<c>>)

is_full_line_comment(line) == CharAt(line, skip_space(line, 0)) = HASH

PRINT_OPEN == <<"p", "r", "i", "n", "t", "(">>

is_commented_print(line) ==
    LET p == skip_space(line, 0)
    IN  /\ CharAt(line, p) = HASH
        /\ HasPrefixAt(line, skip_space(line, p + 1), PRINT_OPEN)

\* strtok_r(s, "\n", ...) called until it returns NULL: the maximal runs of
\* characters other than newline, in order; empty runs are skipped.
RECURSIVE strtok_from(_, _)
strtok_from(s, k) ==
    IF k >= Len(s) THEN <<>>
    ELSE IF s[k + 1] = NL THEN strtok_from(s, k + 1)
    ELSE LET E == {e \in (k + 1)..(Len(s) - 1) : s[e + 1] = NL}
             e == IF E = {} THEN Len(s) ELSE SetMin(E)
         IN  <<SubSeq(s, k + 1, e)>> \o strtok_from(s, e)

strtok_lines(s) == strtok_from(s, 0)

\* ------------------------------------------------------------ wrap_text

\* for (i = max_width; i >= 0; i--) if (strchr(break_chars, text[i])) ...
RECURSIVE scan_back(_, _)
scan_back(text, k) ==
    IF k < 0 THEN -1
    ELSE IF text[k + 1] \in break_chars THEN k
    ELSE scan_back(text, k - 1)

\* for (i = max_width + 1; i < len && i < max_width + 10; i++) ...
RECURSIVE scan_fwd(_, _, _)
scan_fwd(text, k, max_width) ==
    IF ~(k < Len(text) /\ k < max_width + FWD_WINDOW) THEN -1
    ELSE IF text[k + 1] \in break_chars THEN k
    ELSE scan_fwd(text, k + 1, max_width)

\* How the cut of one call is found: "back", "fwd" or "hard".
wrap_how(text, max_width) ==
    IF scan_back(text, max_width) # -1 THEN "back"
    ELSE IF scan_fwd(text, max_width + 1, max_width) # -1 THEN "fwd"
    ELSE "hard"

\* The value of `found` after the two scans and the fallback.
wrap_found(text, max_width) ==
    LET b == scan_back(text, max_width)
    IN  IF b # -1 THEN b
        ELSE LET f == scan_fwd(text, max_width + 1, max_width)
             IN  IF f # -1 THEN f ELSE max_width

RECURSIVE skip_break(_, _)
skip_break(text, k) ==
    IF k < Len(text) /\ text[k + 1] \in break_chars
    THEN skip_break(text, k + 1) ELSE k

\* The remaining text taken from the cut, without the two skip loops.
wrap_rest_no_skip(text, found) == found

\* found + skip: where the remaining text starts.
wrap_rest(text, found) == skip_space(text, skip_break(text, found))

\* The call returns at once: len <= (size_t)max_width.  A negative
\* max_width converts to a huge size_t, so every text "fits".
wrap_fits(text, max_width) == max_width < 0 \/ Len(text) <= max_width

\* The recursion never ends: some call passes its own text on unchanged
\* (found + skip = 0).  found is 0 only from the backward scan, where
\* text[0] is a break character and skip >= 1, or from the fallback with
\* max_width = 0; so only a width of 0 is looked into.
RECURSIVE wrap_loops(_, _)
wrap_loops(text, max_width) ==
    IF wrap_fits(text, max_width) THEN FALSE
    ELSE LET r == wrap_rest(text, wrap_found(text, max_width))
         IN  IF r = 0 THEN TRUE
             ELSE wrap_loops(SubSeq(text, r + 1, Len(text)), max_width)

wrap_diverges(text, max_width) ==
    max_width = 0 /\ wrap_loops(text, max_width)

\* The string wrap_text returns (the lines joined by "\n"); used only
\* where the recursion ends.
RECURSIVE wrap_text(_, _)
wrap_text(text, max_width) ==
    IF wrap_fits(text, max_width) THEN text
    ELSE LET found == wrap_found(text, max_width)
             r == wrap_rest(text, found)
         IN  IF r = 0 THEN text
             ELSE SubSeq(text, 1, found) \o <<NL>>
                    \o wrap_text(SubSeq(text, r + 1, Len(text)), max_width)

\* ------------------------------------------------------------ boxed block

\* The loop over strtok_r(wrapped, "\n"): each token right-trimmed, behind
\* the indent, with a newline.
RECURSIVE box_lines(_, _)
box_lines(indent, tokens) ==
    IF tokens = <<>> THEN <<>>
    ELSE Spaces(indent) \o rtrim(Head(tokens)) \o <<NL>>
           \o box_lines(indent, Tail(tokens))

\* The triple-quoted block the rules A, C and D build around a body: the
\* opening marker line, the body's lines, the closing marker line.
box_block(indent, body) ==
    Spaces(indent) \o TRIPLE \o <<NL>>
      \o box_lines(indent, strtok_lines(body))
      \o Spaces(indent) \o TRIPLE \o <<NL>>

\* ------------------------------------------------------------ Rule A

DEF_KW == <<"d", "e", "f", " ">>

\* print_pre without the test of the line's length.
print_pre_any_length(original_line) ==
    LET buffer == strip_crlf(original_line)
        hash == strchr(buffer, HASH)
    IN  /\ is_commented_print(buffer)
        /\ hash # -1
        /\ hash < MAX_LEN
        /\ ~HasPrefixAt(buffer, skip_space(buffer, hash + 1), DEF_KW)

\* The conditions under which process_commented_print_line goes on to
\* call the formatter (mkstemp and fdopen succeed).
print_pre(original_line) ==
    LET buffer == strip_crlf(original_line)
        hash == strchr(buffer, HASH)
    IN  /\ Len(buffer) > MAX_LEN
        /\ is_commented_print(buffer)
        /\ hash # -1
        /\ hash < MAX_LEN
        /\ ~HasPrefixAt(buffer, skip_space(buffer, hash + 1), DEF_KW)

\* The statement written to the temporary file (without the "\n").
print_code(original_line) ==
    LET buffer == strip_crlf(original_line)
        hash == strchr(buffer, HASH)
    IN  SubSeq(buffer, skip_space(buffer, hash + 1) + 1, Len(buffer))

\* What the formatter may leave in the temporary file for a statement: the
\* statement as it is, the statement split over lines (one of them with
\* trailing blanks), the statement behind an echoed marker, or nothing.
FormatOutputs(code) ==
    { code \o <<NL>>,
      SubSeq(code, 1, 6) \o <<NL>> \o Spaces(4)
        \o SubSeq(code, 7, Len(code) - 1) \o <<",", " ", NL>>
        \o SubSeq(code, Len(code), Len(code)) \o <<NL>>,
      <<HASH, " ">> \o code \o <<NL>>,
      <<>> }

\* The outcome of run_black: NULL when the call fails.
FormatResults(code) == {NULL} \cup FormatOutputs(code)

\* The formatted text after strip_crlf and the removal of a leading marker.
print_formatted(formatted) ==
    LET f == strip_crlf(formatted)
    IN  IF CharAt(f, 0) = HASH THEN ltrim(Tail(f)) ELSE f

\* process_commented_print_line, given the outcome fmt of the formatter
\* (which is used only when print_pre holds).
process_commented_print_line(original_line, fmt) ==
    IF ~print_pre(original_line) THEN NULL
    ELSE IF fmt = NULL THEN NULL
    ELSE box_block(indent_of(strip_crlf(original_line)), print_formatted(fmt))

\* ------------------------------------------------------------ Rule B

\* split_inline_comment without the rtrim of code_part.
split_inline_comment_no_rtrim(original_line) ==
    LET buffer == strip_crlf(original_line)
        hash == strchr(buffer, HASH)
    IN  IF Len(buffer) <= MAX_LEN THEN NULL
        ELSE IF hash = -1 THEN NULL
        ELSE IF CharAt(buffer, skip_space(buffer, 0)) = HASH THEN NULL
        ELSE Spaces(skip_space(buffer, 0)) \o <<HASH, " ">>
               \o SubSeq(buffer, skip_space(buffer, hash + 1) + 1, Len(buffer))
               \o <<NL>> \o SubSeq(buffer, 1, hash) \o <<NL>>

split_inline_comment(original_line) ==
    LET buffer == strip_crlf(original_line)
        hash == strchr(buffer, HASH)
    IN  IF Len(buffer) <= MAX_LEN THEN NULL
        ELSE IF hash = -1 THEN NULL
        ELSE IF CharAt(buffer, skip_space(buffer, 0)) = HASH THEN NULL
        ELSE LET code_part == rtrim(SubSeq(buffer, 1, hash))
                 comment_part ==
                     SubSeq(buffer, skip_space(buffer, hash + 1) + 1, Len(buffer))
                 indent == skip_space(buffer, 0)
             IN  Spaces(indent) \o <<HASH, " ">> \o comment_part \o <<NL>>
                   \o code_part \o <<NL>>

\* ------------------------------------------------------------ Rule C

\* merge_scan keeping the indent of the first line of the run.
RECURSIVE merge_scan_first_indent(_, _, _)
merge_scan_first_indent(ls, k, common_indent) ==
    IF k >= Len(ls) THEN [end |-> k, common_indent |-> common_indent]
    ELSE LET p == skip_space(ls[k + 1], 0)
         IN  IF CharAt(ls[k + 1], p) # HASH
             THEN [end |-> k, common_indent |-> common_indent]
             ELSE merge_scan_first_indent(ls, k + 1,
                      IF common_indent = INDENT_INIT THEN p ELSE common_indent)

\* The first loop of merge_comment_block from line k on: where the run of
\* full-line comments ends, and the smallest indent seen.
RECURSIVE merge_scan(_, _, _)
merge_scan(ls, k, common_indent) ==
    IF k >= Len(ls) THEN [end |-> k, common_indent |-> common_indent]
    ELSE LET p == skip_space(ls[k + 1], 0)
         IN  IF CharAt(ls[k + 1], p) # HASH
             THEN [end |-> k, common_indent |-> common_indent]
             ELSE merge_scan(ls, k + 1,
                             IF p < common_indent THEN p ELSE common_indent)

\* What one line adds to merged: line + common_indent, less one marker if
\* it starts there, less the whitespace after it.
merge_content(line, common_indent) ==
    LET c == IF CharAt(line, common_indent) = HASH
             THEN common_indent + 1 ELSE common_indent
    IN  SubSeq(line, skip_space(line, c) + 1, Len(line))

RECURSIVE merge_cat(_, _, _, _)
merge_cat(ls, j, end, common_indent) ==
    IF j >= end THEN <<>>
    ELSE merge_content(ls[j + 1], common_indent) \o <<" ">>
           \o merge_cat(ls, j + 1, end, common_indent)

\* merged, after rtrim: the text handed to wrap_text.
merge_text(ls, start) ==
    LET m == merge_scan(ls, start, INDENT_INIT)
    IN  rtrim(merge_cat(ls, start, m.end, m.common_indent))

merge_end(ls, start) == merge_scan(ls, start, INDENT_INIT).end

merge_indent(ls, start) == merge_scan(ls, start, INDENT_INIT).common_indent

merge_diverges(ls, start) ==
    LET m == merge_scan(ls, start, INDENT_INIT)
    IN  /\ MAX_LEN - m.common_indent = 0
        /\ wrap_diverges(rtrim(merge_cat(ls, start, m.end, m.common_indent)),
                         MAX_LEN - m.common_indent)

merge_comment_block(ls, start) ==
    LET m == merge_scan(ls, start, INDENT_INIT)
        merged == rtrim(merge_cat(ls, start, m.end, m.common_indent))
        avail_width == MAX_LEN - m.common_indent
    IN  box_block(m.common_indent, ltrim(wrap_text(merged, avail_width)))

\* ------------------------------------------------------------ Rule D

\* triple_scan stopping at once: no line after the opener is taken.
triple_scan_one_line(ls, k, content) == [end |-> k, content |-> content]

\* The loop of process_triple_quote_block from line k on: the lines up to
\* and including the first one holding the marker are added to content.
RECURSIVE triple_scan(_, _, _)
triple_scan(ls, k, content) ==
    IF k >= Len(ls) THEN [end |-> k, content |-> content]
    ELSE LET line == ls[k + 1]
             close == strstr(line, TRIPLE)
         IN  IF close # -1
             THEN [end |-> k + 1,
                   content |-> IF close > 0
                               THEN content \o SubSeq(line, 1, close) \o <<" ">>
                               ELSE content]
             ELSE triple_scan(ls, k + 1, content \o strip_crlf(line) \o <<" ">>)

\* content and *end_index for the block opened at line start.
triple_gather(ls, start) ==
    LET line == ls[start + 1]
        open == strstr(line, TRIPLE) + 3
    IN  triple_scan(ls, start + 1,
                    IF open < Len(line)
                    THEN SubSeq(line, open + 1, Len(line)) \o <<" ">>
                    ELSE <<>>)

triple_end(ls, start) == triple_gather(ls, start).end

triple_indent(ls, start) == skip_space(ls[start + 1], 0)

triple_diverges(ls, start) ==
    /\ MAX_LEN - triple_indent(ls, start) = 0
    /\ wrap_diverges(triple_gather(ls, start).content,
                     MAX_LEN - triple_indent(ls, start))

process_triple_quote_block(ls, start) ==
    IF strstr(ls[start + 1], TRIPLE) = -1 THEN NULL
    ELSE LET ci == triple_indent(ls, start)
         IN  box_block(ci, ltrim(wrap_text(triple_gather(ls, start).content,
                                           MAX_LEN - ci)))

\* ------------------------------------------------------------ inputs

LETTERS == <<"a", "b", "c", "d", "e">>

Letter(k) == LETTERS[(k % 5) + 1]

\* n letters without a break character.
Word(n) == [k \in 1..n |-> Letter(k)]

\* n characters of words of six letters, every third one followed by a
\* comma, separated by single spaces.
Prose(n) ==
    [k \in 1..n |-> IF k % 7 = 0 THEN " "
                    ELSE IF k % 21 = 20 THEN ","
                    ELSE Letter(k)]

\* The lines a file is made of.  Over-width lines are longer than MAX_LEN
\* without their terminator.
CodeLine == <<"x", " ", "=", " ", "1", NL>>
BlankLine == <<NL>>
ShortComment0 == <<HASH, " ", "a", "b", NL>>
ShortComment4 == Spaces(4) \o <<HASH, " ", "c", "d", NL>>
\* A full comment of exactly MAX_LEN characters.
EdgeComment == <<HASH, " ", "x">> \o Prose(MAX_LEN - 3) \o <<NL>>
\* Over-width comments: prose; two words joined by a comma (indent 4); one
\* word longer than the width, followed by a short one.
LongComment == <<HASH, " ">> \o Prose(MAX_LEN + 11) \o <<NL>>
CommaComment ==
    Spaces(4) \o <<HASH, " ">> \o Word(60) \o <<",">> \o Word(30) \o <<NL>>
WordComment ==
    <<HASH, " ">> \o Word(MAX_LEN + 4) \o <<" ">> \o Word(4) \o <<NL>>
\* An over-width commented-out print statement, indent 2.
PrintLine ==
    Spaces(2) \o <<HASH, " ">> \o PRINT_OPEN \o Word(MAX_LEN - 4)
      \o <<")", NL>>
\* An over-width code line with an inline comment, indented by a tab.
InlineLine ==
    <<TAB, "x", " ", "=", " ", "1", ";", " ", " ", HASH, " ">>
      \o Prose(MAX_LEN + 3) \o <<NL>>
\* Lines of triple-quoted blocks: a bare marker (indent 4), an opener with
\* text after the marker, a closing line with text on both sides of the
\* marker, and a long line of block text.
MarkerLine == Spaces(4) \o TRIPLE \o <<NL>>
TitleLine == TRIPLE \o <<"T", "i", "t", "l", "e", NL>>
CloseLine == <<"e", "n", "d", ".">> \o TRIPLE \o <<" ", "t", "a", "i", "l", NL>>
TextLine == Spaces(4) \o Prose(MAX_LEN + 21) \o <<NL>>

LineSet ==
    { CodeLine, BlankLine, ShortComment0, ShortComment4, EdgeComment,
      LongComment, CommaComment, WordComment, PrintLine, InlineLine,
      MarkerLine, TitleLine, CloseLine, TextLine }

\* The files: every sequence of at most MaxLines lines of LineSet.
Files == UNION {[1..n -> LineSet] : n \in 0..MaxLines}

\* Lines at the edges of the rules: a commented print that is not over
\* width; a commented print at indent MAX_LEN, where Rule A declines and
\* Rule C has no width left; a block that opens and closes on one line; an
\* opener at an indent beyond MAX_LEN, where the width is negative.
ShortPrint == <<HASH, " ">> \o PRINT_OPEN \o <<"a", ")", NL>>
DeepPrint ==
    Spaces(MAX_LEN) \o <<HASH, " ">> \o PRINT_OPEN \o Word(10) \o <<")", NL>>
OneLineBlock == TRIPLE \o <<"d", "o", "c">> \o TRIPLE \o <<NL>>
WideOpener == Spaces(MAX_LEN + 1) \o TRIPLE \o <<"a", "b", NL>>

EdgeLines ==
    { ShortPrint, PrintLine, InlineLine, LongComment, DeepPrint, MarkerLine,
      OneLineBlock, WideOpener, TextLine }

EdgeFiles == UNION {[1..n -> EdgeLines] : n \in 0..MaxLines}

\* The files of the runs with failing input and output.
IoLines == {CodeLine, LongComment, PrintLine, InlineLine, MarkerLine, DeepPrint}

IoFiles == UNION {[1..n -> IoLines] : n \in 0..MaxLines}

\* ------------------------------------------------------------ process_file

\* The fgets loop: the text of a file cut after every newline.
RECURSIVE fgets_from(_, _)
fgets_from(s, k) ==
    IF k >= Len(s) THEN <<>>
    ELSE LET E == {e \in (k + 1)..Len(s) : s[e] = NL}
             e == IF E = {} THEN Len(s) ELSE SetMin(E)
         IN  <<SubSeq(s, k + 1, e)>> \o fgets_from(s, e)

fgets_lines(s) == fgets_from(s, 0)

\* strncmp(trimmed, "\"\"\"", 3) == 0
is_opener(line) == HasPrefixAt(line, skip_space(line, 0), TRIPLE)

cur == lines[i + 1]

\* The outcomes of the formatter call that Rule A makes for a line (NULL is
\* its failure); no call is made unless the preconditions hold.
FormatChoices(line) ==
    IF print_pre(line) THEN FormatResults(print_code(line)) ELSE {NULL}

FormatTag(line, fmt) ==
    IF ~print_pre(line) THEN "none" ELSE IF fmt = NULL THEN "fail" ELSE "ok"

\* The Rule C condition with commented prints left out.
merge_fires_no_print(line) ==
    /\ is_full_line_comment(line)
    /\ Len(line) > MAX_LEN
    /\ ~is_commented_print(line)

\* The Rule C condition without the test for a full-line comment.
merge_fires_any_long(line) == Len(line) > MAX_LEN

\* The condition of the Rule C branch.
merge_fires(line) == is_full_line_comment(line) /\ Len(line) > MAX_LEN

\* fputs(new_line, fout) and the move of the cursor to the end of the span.
\* The result of fputs is not looked at: on a full file system the text
\* does not reach the scratch file and the loop goes on.
Emit(rule, end, text, fmt) ==
    /\ out' = Append(out, [rule |-> rule, start |-> i, end |-> end,
                           text |-> text, fmt |-> fmt,
                           written |-> (fs = "ok")])
    /\ i' = end
    /\ UNCHANGED <<lines, pc, wtext, wwidth, wlines, wpc, unread, target, fs>>

Scanning == pc = "scan" /\ i < Len(lines)

\* One iteration of the loop that ends in the Rule D branch.
RuleD ==
    /\ Scanning
    /\ is_opener(cur)
    /\ ~triple_diverges(lines, i)
    /\ LET new_line == process_triple_quote_block(lines, i)
       IN  /\ new_line # NULL
           /\ Emit("D", triple_end(lines, i), new_line, "none")

\* One iteration that ends in the Rule A branch.
RuleA ==
    /\ Scanning
    /\ ~is_opener(cur)
    /\ \E fmt \in FormatChoices(cur) :
         LET new_line == process_commented_print_line(cur, fmt)
         IN  /\ new_line # NULL
             /\ Emit("A", i + 1, new_line, FormatTag(cur, fmt))

\* One iteration that ends in the Rule B branch.
RuleB ==
    /\ Scanning
    /\ ~is_opener(cur)
    /\ \E fmt \in FormatChoices(cur) :
         LET new_line == split_inline_comment(cur)
         IN  /\ process_commented_print_line(cur, fmt) = NULL
             /\ new_line # NULL
             /\ Emit("B", i + 1, new_line, FormatTag(cur, fmt))

\* The Rule C branch tried before Rule A.
RuleC_BeforeA ==
    /\ Scanning
    /\ ~is_opener(cur)
    /\ \E fmt \in FormatChoices(cur) :
         /\ split_inline_comment(cur) = NULL
         /\ merge_fires(cur)
         /\ ~merge_diverges(lines, i)
         /\ Emit("C", merge_end(lines, i), merge_comment_block(lines, i),
                 FormatTag(cur, fmt))

\* One iteration that ends in the Rule C branch.
RuleC ==
    /\ Scanning
    /\ ~is_opener(cur)
    /\ \E fmt \in FormatChoices(cur) :
         /\ process_commented_print_line(cur, fmt) = NULL
         /\ split_inline_comment(cur) = NULL
         /\ merge_fires(cur)
         /\ ~merge_diverges(lines, i)
         /\ Emit("C", merge_end(lines, i), merge_comment_block(lines, i),
                 FormatTag(cur, fmt))

\* One iteration in which no rule fires: fputs(lines[i], fout).
Copy ==
    /\ Scanning
    /\ ~is_opener(cur)
    /\ \E fmt \in FormatChoices(cur) :
         /\ process_commented_print_line(cur, fmt) = NULL
         /\ split_inline_comment(cur) = NULL
         /\ ~merge_fires(cur)
         /\ Emit("copy", i + 1, cur, FormatTag(cur, fmt))

\* The loop is over: fclose(fout), whose result is not looked at, and a
\* rename that succeeds: filename names the scratch file from now on.
Finish ==
    /\ pc = "scan"
    /\ i >= Len(lines)
    /\ pc' = "done"
    /\ target' = "scratch"
    /\ UNCHANGED <<lines, i, out, wtext, wwidth, wlines, wpc, unread, fs>>

\* The state before the rule loop for a file whose lines were all read.
InitWith(fileset) ==
    /\ lines \in fileset
    /\ i = 0
    /\ out = <<>>
    /\ pc = "scan"
    /\ wtext = <<>>
    /\ wwidth = 0
    /\ wlines = <<>>
    /\ wpc = "idle"
    /\ unread = <<>>
    /\ target = "original"
    /\ fs = "ok"

Init == InitWith(Files)

Next == RuleD \/ RuleA \/ RuleB \/ RuleC \/ Copy \/ Finish

Spec == Init /\ [][Next]_vars

\* An iteration whose call of wrap_text never returns: Rule D, or Rule C,
\* hands it a width of 0 and a text that some call passes on unchanged.
\* The recursion runs out of stack and the process is killed, before the
\* iteration writes anything.
Crash ==
    /\ Scanning
    /\ \/ is_opener(cur) /\ triple_diverges(lines, i)
       \/ /\ ~is_opener(cur)
          /\ \E fmt \in FormatChoices(cur) :
                /\ process_commented_print_line(cur, fmt) = NULL
                /\ split_inline_comment(cur) = NULL
          /\ merge_fires(cur)
          /\ merge_diverges(lines, i)
    /\ pc' = "crashed"
    /\ UNCHANGED <<lines, i, out, wtext, wwidth, wlines, wpc, unread, target, fs>>

\* The pass over the files made of the edge lines.
EdgeInit == InitWith(EdgeFiles)

EdgeNext == Next \/ Crash

EdgeSpec == EdgeInit /\ [][EdgeNext]_vars

\* The fgets loop ends when fgets returns NULL, at the end of the file or
\* on a read error (ferror is not looked at): the lines read are a prefix
\* of the file's lines.
IoInit ==
    /\ \E f \in IoFiles : \E n \in 0..Len(f) :
          /\ lines = SubSeq(f, 1, n)
          /\ unread = SubSeq(f, n + 1, Len(f))
    /\ i = 0
    /\ out = <<>>
    /\ pc = "scan"
    /\ wtext = <<>>
    /\ wwidth = 0
    /\ wlines = <<>>
    /\ wpc = "idle"
    /\ target = "original"
    /\ fs = "ok"

\* mkstemp or fdopen fails: process_file returns before the loop.
OpenFail ==
    /\ pc = "scan"
    /\ i = 0
    /\ out = <<>>
    /\ pc' = "failed"
    /\ UNCHANGED <<lines, i, out, wtext, wwidth, wlines, wpc, unread, target, fs>>

\* The file system of the scratch file runs full: every later write fails.
DiskFull ==
    /\ pc = "scan"
    /\ fs = "ok"
    /\ fs' = "full"
    /\ UNCHANGED <<lines, i, out, pc, wtext, wwidth, wlines, wpc, unread, target>>

\* The loop is over and rename fails: filename keeps naming the original.
RenameFail ==
    /\ pc = "scan"
    /\ i >= Len(lines)
    /\ pc' = "failed"
    /\ UNCHANGED <<lines, i, out, wtext, wwidth, wlines, wpc, unread, target, fs>>

IoNext == EdgeNext \/ OpenFail \/ DiskFull \/ RenameFail

\* The pass with failing reads, writes and rename.
IoSpec == IoInit /\ [][IoNext]_vars

\* ------------------------------------------------------------ wrap_text alone

\* The texts wrap_text is run on by itself: a letter, a blank and a comma.
WrapAlphabet == {"a", " ", ","}

Texts == UNION {[1..n -> WrapAlphabet] : n \in 0..MaxTextLen}

\* One call of wrap_text that does not return at once: first_part is cut
\* off and the call recurses on the remaining text.
WrapSplit ==
    /\ wpc = "call"
    /\ ~wrap_fits(wtext, wwidth)
    /\ LET found == wrap_found(wtext, wwidth)
           r == wrap_rest(wtext, found)
       IN  /\ wlines' = Append(wlines, [text |-> SubSeq(wtext, 1, found),
                                        how |-> wrap_how(wtext, wwidth),
                                        from |-> wtext])
           /\ wtext' = SubSeq(wtext, r + 1, Len(wtext))
    /\ UNCHANGED <<lines, i, out, pc, wwidth, wpc, unread, target, fs>>

\* The call that returns its text as the last line: strdup(text).
WrapReturn ==
    /\ wpc = "call"
    /\ wrap_fits(wtext, wwidth)
    /\ wlines' = Append(wlines, [text |-> wtext, how |-> "fits",
                                 from |-> wtext])
    /\ wpc' = "returned"
    /\ UNCHANGED <<lines, i, out, pc, wtext, wwidth, unread, target, fs>>

WrapInit ==
    /\ wtext \in Texts
    /\ wwidth \in 1..MaxWidth
    /\ wlines = <<>>
    /\ wpc = "call"
    /\ lines = <<>>
    /\ i = 0
    /\ out = <<>>
    /\ pc = "idle"
    /\ unread = <<>>
    /\ target = "original"
    /\ fs = "ok"

WrapNext == WrapSplit \/ WrapReturn

WrapSpec == WrapInit /\ [][WrapNext]_vars

\* wrap_text is a sequential function: a call that has not returned goes on.
WrapFairSpec == WrapSpec /\ WF_vars(WrapNext)

\* ------------------------------------------------------------ properties

\* The text of the call that started the recursion.
WrapOriginal == wlines[1].from

\* The lines of the result joined by single spaces.
RECURSIVE JoinLines(_, _)
JoinLines(ls, k) ==
    IF k > Len(ls) THEN <<>>
    ELSE IF k = Len(ls) THEN ls[k].text
    ELSE ls[k].text \o <<" ">> \o JoinLines(ls, k + 1)

\* A text without the characters of a set.
Without(s, drop) == SelectSeq(s, LAMBDA c : c \notin drop)

WhiteSpace == {" ", TAB, NL, CR}

\* A text with every run of whitespace collapsed to one space.
Collapse(s) ==
    LET keep == {k \in 1..Len(s) :
                   ~(s[k] \in WhiteSpace /\ k > 1 /\ s[k - 1] \in WhiteSpace)}
        pos(n) == CHOOSE k \in keep : Cardinality({j \in keep : j < k}) = n - 1
    IN  [n \in 1..Cardinality(keep) |->
           IF s[pos(n)] \in WhiteSpace THEN " " ELSE s[pos(n)]]

\* The lines of a text, without their newlines.
TextLines(s) == strtok_lines(s)

\* The records of the iterations made so far.
Steps == {out[k] : k \in 1..Len(out)}

\* The input line an iteration started at.
LineAt(r) == lines[r.start + 1]

\* C1: every line of a block emitted by Rule C or Rule D is at most 79
\* characters long, indent included.
C1_BoxedLinesWithinWidth ==
    \A r \in Steps :
        r.rule \in {"C", "D"} =>
            \A k \in 1..Len(TextLines(r.text)) :
                Len(TextLines(r.text)[k]) <= MAX_LEN

\* C2: a line of at most 79 characters (terminator not counted) that is not
\* in a Rule D span and not in a Rule C span started by an over-width
\* comment line is emitted unchanged.
C2_IdentityBelowThreshold ==
    \A r \in Steps : \A j \in r.start..(r.end - 1) :
        ( /\ Len(strip_crlf(lines[j + 1])) <= MAX_LEN
          /\ r.rule # "D"
          /\ ~(r.rule = "C" /\ Len(strip_crlf(LineAt(r))) > MAX_LEN) )
        => (r.rule = "copy" /\ r.text = lines[j + 1])

\* C3: every line wrap_text produces is at most max_width long, and a line
\* cut by the forced hard break is exactly max_width long.
C3_WrapperBound ==
    \A k \in 1..Len(wlines) :
        /\ Len(wlines[k].text) <= wwidth
        /\ wlines[k].how = "hard" => Len(wlines[k].text) = wwidth

\* C4: the lines of wrap_text joined by single spaces are, up to runs of
\* whitespace, the text; no character that is not whitespace is dropped.
C4_WrapperConcatenation ==
    wpc = "returned" =>
        /\ Collapse(JoinLines(wlines, 1)) = Collapse(WrapOriginal)
        /\ Without(JoinLines(wlines, 1), WhiteSpace)
             = Without(WrapOriginal, WhiteSpace)

\* C5: Rule D applied to a block that Rule D produced returns the block,
\* byte for byte.
C5_RuleDIdempotent ==
    \A r \in Steps :
        r.rule = "D" =>
            LET B == fgets_lines(r.text)
            IN  /\ triple_end(B, 0) = Len(B)
                /\ process_triple_quote_block(B, 0) = r.text

\* The place (1-based) of the first marker of a line, 0 when it has none.
FirstHash(s) ==
    IF \A k \in 1..Len(s) : s[k] # HASH THEN 0
    ELSE CHOOSE k \in 1..Len(s) :
             s[k] = HASH /\ \A j \in 1..(k - 1) : s[j] # HASH

\* The number of leading (trailing) whitespace characters of a text.
LeadWs(s) ==
    CHOOSE n \in 0..Len(s) :
        /\ \A k \in 1..n : s[k] \in WhiteSpace
        /\ n < Len(s) => s[n + 1] \notin WhiteSpace

TrailWs(s) ==
    CHOOSE n \in 0..Len(s) :
        /\ \A k \in (Len(s) - n + 1)..Len(s) : s[k] \in WhiteSpace
        /\ n < Len(s) => s[Len(s) - n] \notin WhiteSpace

TrimLeft(s) == SubSeq(s, LeadWs(s) + 1, Len(s))

TrimRight(s) == SubSeq(s, 1, Len(s) - TrailWs(s))

\* A line without its terminator.
Bare(line) ==
    LET n == CHOOSE n \in 0..Len(line) :
                 /\ \A k \in (Len(line) - n + 1)..Len(line) :
                        line[k] \in {NL, CR}
                 /\ n < Len(line) => line[Len(line) - n] \notin {NL, CR}
    IN  SubSeq(line, 1, Len(line) - n)

FullComment(line) ==
    LeadWs(line) < Len(line) /\ line[LeadWs(line) + 1] = HASH

\* The line starts, behind its indent, with the block marker.
BlockOpener(line) ==
    /\ LeadWs(line) + 3 <= Len(line)
    /\ \A k \in 1..3 : line[LeadWs(line) + k] = QUOTE

\* Over-width code line with an inline comment: what Rule B is for.
InlineCase(line) ==
    /\ Len(Bare(line)) > MAX_LEN
    /\ FirstHash(Bare(line)) > 0
    /\ ~FullComment(line)

\* The two lines Rule B is to emit for a line.
SplitOf(line) ==
    LET b == Bare(line)
        h == FirstHash(b)
    IN  Spaces(LeadWs(b)) \o <<HASH, " ">>
          \o TrimLeft(SubSeq(b, h + 1, Len(b))) \o <<NL>>
          \o TrimRight(SubSeq(b, 1, h - 1)) \o <<NL>>

C7_RuleCSpanIndent ==
    \A r \in Steps :
        r.rule = "C" =>
            /\ r.start < r.end
            /\ r.end <= Len(lines)
            /\ \A j \in r.start..(r.end - 1) : FullComment(lines[j + 1])
            /\ r.end < Len(lines) => ~FullComment(lines[r.end + 1])
            /\ \E j \in r.start..(r.end - 1) :
                   merge_indent(lines, r.start) = LeadWs(lines[j + 1])
            /\ \A j \in r.start..(r.end - 1) :
                   merge_indent(lines, r.start) <= LeadWs(lines[j + 1])
            /\ SubSeq(r.text, 1, merge_indent(lines, r.start) + 3)
                 = Spaces(merge_indent(lines, r.start)) \o TRIPLE

\* Rule C has merged two comment lines of indents 4 and 0, in this order,
\* and stopped before a blank line.
C7_Witness ==
    \E r \in Steps :
        /\ r.rule = "C"
        /\ r.end = r.start + 2
        /\ LeadWs(LineAt(r)) = 4
        /\ merge_indent(lines, r.start) = 0
        /\ r.end < Len(lines)
        /\ lines[r.end + 1] = BlankLine

\* Over-width commented print that meets the preconditions of Rule A.
PrintCase(line) ==
    LET b == Bare(line)
        t == TrimLeft(SubSeq(b, LeadWs(b) + 2, Len(b)))
    IN  /\ Len(b) > MAX_LEN
        /\ FullComment(line)
        /\ LeadWs(b) < MAX_LEN
        /\ Len(t) >= 6
        /\ SubSeq(t, 1, 6) = PRINT_OPEN

\* A text is a block at an indent: its first and its last line are the
\* marker behind the indent.
BoxedAt(text, indent) ==
    LET ls == fgets_lines(text)
    IN  /\ Len(ls) >= 2
        /\ ls[1] = Spaces(indent) \o TRIPLE \o <<NL>>
        /\ ls[Len(ls)] = Spaces(indent) \o TRIPLE \o <<NL>>

\* C8: an over-width commented print that meets Rule A's preconditions and
\* whose formatter call succeeds is replaced by Rule A's block; the scan
\* moves on by one line, so Rule C takes neither it nor the lines after it.
C8_PrecedenceAOverC ==
    \A k \in 1..Len(out) :
        LET r == out[k]
        IN  (PrintCase(LineAt(r)) /\ r.fmt = "ok") =>
                /\ r.rule = "A"
                /\ BoxedAt(r.text, LeadWs(LineAt(r)))
                /\ r.end = r.start + 1
                /\ k < Len(out) => out[k + 1].start = r.start + 1
                /\ k = Len(out) => i = r.start + 1

\* Rule A has fired on a line that begins a run of two comment lines; the
\* second one was scanned on its own afterwards.
C8_Witness ==
    \E k \in 1..(Len(out) - 1) :
        /\ out[k].rule = "A"
        /\ out[k].fmt = "ok"
        /\ PrintCase(LineAt(out[k]))
        /\ FullComment(LineAt(out[k + 1]))
        /\ out[k + 1].start = out[k].start + 1

\* What is left of a text without whitespace, markers and delimiters.
Content(s) == Without(s, WhiteSpace \cup {HASH, QUOTE})

RECURSIVE Concat(_, _, _)
Concat(ls, from, to) ==
    IF from >= to THEN <<>> ELSE ls[from + 1] \o Concat(ls, from + 1, to)

\* C9: the output of Rule B, C or D holds every character of the consumed
\* lines that is not whitespace, a marker or a delimiter, in order (for
\* Rule B: the comment's, then the code's).
C9_NoContentDeleted ==
    \A r \in Steps :
        /\ r.rule \in {"C", "D"} =>
               Content(r.text) = Content(Concat(lines, r.start, r.end))
        /\ r.rule = "B" =>
               LET b == Bare(LineAt(r))
                   h == FirstHash(b)
               IN  Content(r.text) = Content(SubSeq(b, h + 1, Len(b)))
                                       \o Content(SubSeq(b, 1, h - 1))

\* C10 as stated: a line whose formatter call fails is emitted unchanged.
C10_ToolFailureLeavesLine ==
    \A r \in Steps :
        r.fmt = "fail" =>
            /\ r.rule = "copy"
            /\ r.text = LineAt(r)
            /\ r.end = r.start + 1

\* C10, amended: a line whose formatter call fails is not taken by Rule A;
\* the scan falls through to Rule C, which replaces the run of full
\* comments starting at the line by one block, and goes on after the run.
C10_ToolFailureFallsToRuleC ==
    \A k \in 1..Len(out) :
        LET r == out[k]
        IN  r.fmt = "fail" =>
                /\ PrintCase(LineAt(r))
                /\ r.rule = "C"
                /\ r.text # LineAt(r)
                /\ \E n \in 0..LeadWs(LineAt(r)) : BoxedAt(r.text, n)
                /\ \A j \in r.start..(r.end - 1) : FullComment(lines[j + 1])
                /\ r.end < Len(lines) => ~FullComment(lines[r.end + 1])
                /\ k < Len(out) => out[k + 1].start = r.end
                /\ k = Len(out) => i = r.end
                /\ pc \in {"scan", "done"}

\* The formatter failed for a commented print, Rule C took the line and the
\* comment after it, and the pass came to its end.
C10_Witness ==
    \E r \in Steps :
        /\ r.fmt = "fail"
        /\ r.rule = "C"
        /\ r.end = r.start + 2
        /\ pc = "done"
        /\ i = Len(lines)

\* ------------------------------------------------------------ the file

\* The content of the file process_file was given, before the pass.
OriginalContent == Concat(lines \o unread, 0, Len(lines) + Len(unread))

\* What the pass has emitted so far, and the part of it that reached the
\* scratch file.
RECURSIVE Emitted(_)
Emitted(k) == IF k = 0 THEN <<>> ELSE Emitted(k - 1) \o out[k].text

RECURSIVE Scratch(_)
Scratch(k) ==
    IF k = 0 THEN <<>>
    ELSE Scratch(k - 1) \o (IF out[k].written THEN out[k].text ELSE <<>>)

\* The content found under filename.
FileContent ==
    IF target = "original" THEN OriginalContent ELSE Scratch(Len(out))

\* C11: the file holds its original content or the complete output of the
\* pass over all of its lines, whatever fails on the way.
C11_AtomicReplacement ==
    \/ FileContent = OriginalContent
    \/ /\ unread = <<>>
       /\ i = Len(lines)
       /\ FileContent = Emitted(Len(out))

\* ------------------------------------------------------------ blocks in the input

\* The number of markers in a text from place k (1-based) on, counted from
\* left to right without overlap.
RECURSIVE CountMarkers(_, _)
CountMarkers(s, k) ==
    IF k + 2 > Len(s) THEN 0
    ELSE IF s[k] = QUOTE /\ s[k + 1] = QUOTE /\ s[k + 2] = QUOTE
         THEN 1 + CountMarkers(s, k + 3)
         ELSE CountMarkers(s, k + 1)

\* A block is open after the first n lines: the markers of these lines open
\* and close blocks in turn.
RECURSIVE OpenAfter(_, _)
OpenAfter(ls, n) ==
    IF n = 0 THEN FALSE
    ELSE LET before == OpenAfter(ls, n - 1)
         IN  IF CountMarkers(ls[n], 1) % 2 = 1 THEN ~before ELSE before

\* The lines (0-based) of the boxed blocks of a file: the lines from one
\* that opens a block to the one that closes it, or to the end of the file.
BlockLines(ls) ==
    {j \in 0..(Len(ls) - 1) :
        OpenAfter(ls, j) \/ CountMarkers(ls[j + 1], 1) > 0}

\* C12: no line of a boxed block of the input is taken by Rule A, B or C,
\* and no line outside the boxed blocks is inside a Rule D span.
C12_BlocksOnlyByRuleD ==
    \A r \in Steps : \A j \in r.start..(r.end - 1) :
        /\ j \in BlockLines(lines) => r.rule \notin {"A", "B", "C"}
        /\ j \notin BlockLines(lines) => r.rule # "D"

\* ------------------------------------------------------------ spans

\* The steps whose span holds the input line j (0-based).
StepsAt(j) == {k \in 1..Len(out) : out[k].start <= j /\ j < out[k].end}

\* C13: every step consumes a non-empty span inside the file, one line for
\* Rule A, Rule B and a copy; each span starts where the one before ended,
\* the first at line 0, and the cursor is the end of the last one: every
\* line before the cursor is in exactly one span, no line from the cursor on
\* is in any, and a finished pass has consumed every line.
C13_SpanPartition ==
    /\ \A k \in 1..Len(out) :
          /\ out[k].start < out[k].end
          /\ out[k].end <= Len(lines)
          /\ out[k].rule \in {"A", "B", "copy"} => out[k].end = out[k].start + 1
          /\ out[k].start = IF k = 1 THEN 0 ELSE out[k - 1].end
    /\ i = IF out = <<>> THEN 0 ELSE out[Len(out)].end
    /\ \A j \in 0..(Len(lines) - 1) :
          Cardinality(StepsAt(j)) = IF j < i THEN 1 ELSE 0
    /\ pc = "done" => i = Len(lines)

\* A finished pass in which Rule C or Rule D consumed two lines or more and
\* the scan went on with the line after the span.
C13_Witness ==
    /\ pc = "done"
    /\ \E k \in 1..(Len(out) - 1) :
          /\ out[k].rule \in {"C", "D"}
          /\ out[k].end >= out[k].start + 2
          /\ out[k + 1].start = out[k].end

\* ------------------------------------------------------------ termination

\* C14: the scan is left in one way only, at its end: whenever the loop is
\* no longer running, the pass is done and the cursor is the line count.
\* (While the loop runs, every iteration moves the cursor forward.)
C14_EngineTerminates == pc # "scan" => (pc = "done" /\ i = Len(lines))

\* C15: every call of wrap_text with max_width >= 1 hands a strictly shorter
\* text to the call it makes, so the recursion comes to its end; an empty
\* text is returned as one empty line.
C15_WrapperTerminates ==
    /\ [][(wpc = "call" /\ wpc' = "call") => Len(wtext') < Len(wtext)]_vars
    /\ <>(wpc = "returned")
    /\ []((wpc = "returned" /\ WrapOriginal = <<>>) =>
            (Len(wlines) = 1 /\ wlines[1].text = <<>>))

\* wrap_text has returned after a call that cut at index 0 (an empty first
\* line) and a call that used the hard break.
C15_Witness ==
    /\ wpc = "returned"
    /\ wwidth >= 1
    /\ \E k \in 1..Len(wlines) :
          wlines[k].how = "back" /\ wlines[k].text = <<>>
    /\ \E k \in 1..Len(wlines) : wlines[k].how = "hard"

\* ------------------------------------------------------------ Rule C text

\* The bare content of a full-comment line: the line without its
\* terminator, its leading whitespace, its marker and the whitespace after
\* the marker.
BareContent(line) ==
    LET b == Bare(line)
    IN  TrimLeft(SubSeq(b, LeadWs(b) + 2, Len(b)))

\* The bare contents of the lines from..to-1, joined by single spaces.
RECURSIVE Flatten(_, _, _)
Flatten(ls, from, to) ==
    IF from >= to THEN <<>>
    ELSE IF from = to - 1 THEN BareContent(ls[from + 1])
    ELSE BareContent(ls[from + 1]) \o <<" ">> \o Flatten(ls, from + 1, to)

\* C16: the text Rule C hands to wrap_text is the bare contents of the
\* lines of its span joined by one space each, right-trimmed.
C16_RuleCFlattening ==
    \A r \in Steps :
        r.rule = "C" =>
            merge_text(lines, r.start) = TrimRight(Flatten(lines, r.start, r.end))

\* ------------------------------------------------------------ unclosed block

\* No line after line j (0-based) holds the marker.
NoMarkerAfter(j) ==
    \A n \in (j + 1)..(Len(lines) - 1) : CountMarkers(lines[n + 1], 1) = 0

\* The letters of a text: what is left without whitespace, break characters
\* and quotes.
Letters(s) == Without(s, WhiteSpace \cup break_chars \cup {QUOTE})

\* The last line of a text.
LastLine(text) == LET ls == fgets_lines(text) IN ls[Len(ls)]

\* C17: when Rule D fires at an opener that no later line closes, its span
\* runs to the end of the file, the block holds the letters of all these
\* lines in order and ends with the closing delimiter behind the opener's
\* indent, and it is the last thing the pass emits: the cursor is the line
\* count and the loop is over.
C17_UnclosedBlock ==
    \A k \in 1..Len(out) :
        LET r == out[k]
        IN  (r.rule = "D" /\ NoMarkerAfter(r.start)) =>
                /\ r.end = Len(lines)
                /\ Letters(r.text) = Letters(Concat(lines, r.start, Len(lines)))
                /\ LastLine(r.text) = Spaces(LeadWs(LineAt(r))) \o TRIPLE \o <<NL>>
                /\ k = Len(out)
                /\ i = Len(lines)
                /\ pc \in {"scan", "done"}

\* Rule D has fired at an opener that is never closed and has absorbed the
\* two lines after it, the last lines of the file; the pass is done.
C17_Witness ==
    /\ pc = "done"
    /\ \E r \in Steps :
          /\ r.rule = "D"
          /\ NoMarkerAfter(r.start)
          /\ r.end = r.start + 3
          /\ r.end = Len(lines)

\* ------------------------------------------------------------ block shape

\* A text is a well-shaped block: a delimiter line (indent and marker),
\* content lines made of the same indent and a text that neither starts nor
\* ends with whitespace (so none is empty), and a delimiter line again.
WellShaped(text) ==
    LET ls == fgets_lines(text)
        n == LeadWs(Bare(ls[1]))
    IN  /\ Len(ls) >= 2
        /\ ls[1] = Spaces(n) \o TRIPLE \o <<NL>>
        /\ ls[Len(ls)] = Spaces(n) \o TRIPLE \o <<NL>>
        /\ \A k \in 2..(Len(ls) - 1) :
              LET c == Bare(ls[k])
              IN  /\ Len(c) > n
                  /\ SubSeq(c, 1, n) = Spaces(n)
                  /\ c[n + 1] \notin WhiteSpace
                  /\ c[Len(c)] \notin WhiteSpace

\* C18: every block Rule C or Rule D emits is well shaped.
C18_BoxedBlockShape ==
    \A r \in Steps : r.rule \in {"C", "D"} => WellShaped(r.text)

\* ------------------------------------------------------------ formatter calls

\* Every scanned position has one record, whose fmt tells whether the
\* formatter was called there ("ok", "fail") or not ("none"): no position
\* has more than one call.

\* C19 as stated: the formatter is called only for an over-width commented
\* print of indent below 79, once for every firing of Rule A, and for no
\* line of a Rule C or Rule D span.
C19_FormatCallsAsStated ==
    \A r \in Steps :
        /\ r.fmt # "none" => PrintCase(LineAt(r))
        /\ r.rule = "A" => r.fmt = "ok"
        /\ r.rule \in {"C", "D"} => r.fmt = "none"

\* C19, amended: the formatter is called exactly at the scanned positions
\* outside Rule D that hold an over-width commented print of indent below
\* 79; the call succeeds exactly where Rule A fires; a failed call is
\* followed by Rule C, whose span starts with the line of the call; only
\* the start of a span is a scanned position, so no call is made for a
\* later line of a span.
C19_FormatCalls ==
    /\ \A r \in Steps :
          /\ r.fmt # "none" <=> (PrintCase(LineAt(r)) /\ r.rule # "D")
          /\ r.rule = "A" <=> r.fmt = "ok"
          /\ r.fmt = "fail" => r.rule = "C"
          /\ r.rule \in {"D", "B", "copy"} => r.fmt = "none"
    /\ \A j \in 0..(Len(lines) - 1) :
          Cardinality({k \in 1..Len(out) : out[k].start = j}) <= 1

\* A finished pass with a firing of Rule A, a copied commented print that
\* is not over width, and a failed call followed by Rule C.
C19_Witness ==
    /\ pc = "done"
    /\ \E r \in Steps : r.rule = "A" /\ r.fmt = "ok"
    /\ \E r \in Steps : r.rule = "copy" /\ LineAt(r) = ShortPrint
    /\ \E r \in Steps : r.rule = "C" /\ r.fmt = "fail"

====
